---- MODULE Spec2Model ----
(***************************************************************************)
(* Model of src/data_ingestion.py: PropertyDataIngestion.  Two JSON        *)
(* sources are parsed into records of one unified schema, the records are  *)
(* put into one table, and the table is cleaned column by column.          *)
(*                                                                         *)
(* JSON values and table cells are records [t, s, n, o]: t is the Python   *)
(* type, s the characters of a string (a tuple of one-character strings),  *)
(* n the number (or the length of a list), o the items of a dict.          *)
(***************************************************************************)
EXTENDS Integers, Sequences, FiniteSets, TLC

VARIABLES
    pc,                     \* position in the method being run
    baanknet_file,          \* content of self.baanknet_file on disk
    property_details_dir,   \* the *.json files of self.property_details_dir, in glob order
    unified_schema,         \* self.unified_schema, the shared template dict
    baanknet_data,          \* result of parse_baanknet_file
    property_details_data,  \* result of parse_property_details_directory
    df,                     \* the DataFrame being built / cleaned
    prev_df,                \* the DataFrame as it was before the last clean_and_standardize
    exc,                    \* the exception that escaped, "none" if none did
    dimensions,             \* argument of extract_area_from_dimensions
    area,                   \* its result
    passes                  \* how many times clean_and_standardize was applied

vars == <<pc, baanknet_file, property_details_dir, unified_schema, baanknet_data,
          property_details_data, df, prev_df, exc, dimensions, area, passes>>

(***************************************************************************)
(* Bounds of the model.                                                    *)
(***************************************************************************)
MaxEntries == 2     \* entries in the baanknet file
MaxFiles == 2       \* files in the property-details directory
MaxRows == 2        \* rows of a table handed to clean_and_standardize directly

(***************************************************************************)
(* Python values.                                                          *)
(***************************************************************************)
NoFields == [k \in {} |-> 0]

Null == [t |-> "null", s |-> <<>>, n |-> 0, o |-> NoFields]
Str(s) == [t |-> "str", s |-> s, n |-> 0, o |-> NoFields]
Num(n) == [t |-> "num", s |-> <<>>, n |-> n, o |-> NoFields]
Bool(b) == [t |-> "bool", s |-> <<>>, n |-> IF b THEN 1 ELSE 0, o |-> NoFields]
List(n) == [t |-> "list", s |-> <<>>, n |-> n, o |-> NoFields]
Obj(f) == [t |-> "obj", s |-> <<>>, n |-> 0, o |-> f]

\* A float, kept exactly as an integer count of 1/FloatScale.
FloatScale == 1000
Float(n) == [t |-> "float", s |-> <<>>, n |-> n, o |-> NoFields]

\* A pandas Timestamp: year*10000 + month*100 + day.
Date(n) == [t |-> "date", s |-> <<>>, n |-> n, o |-> NoFields]

\* bool(v)
Truthy(v) ==
    CASE v.t = "null" -> FALSE
      [] v.t = "str" -> v.s # <<>>
      [] v.t \in {"num", "float", "bool", "list"} -> v.n # 0
      [] v.t = "obj" -> DOMAIN v.o # {}
      [] v.t = "date" -> TRUE

\* v == k for an int literal k (True == 1 and 1.0 == 1 in Python)
PyEqInt(v, k) ==
    \/ v.t \in {"num", "bool"} /\ v.n = k
    \/ v.t = "float" /\ v.n = k * FloatScale

\* key in d, for a dict d
HasKey(d, key) == key \in DOMAIN d.o

\* d.get(key), for a dict d
Get(d, key) == IF key \in DOMAIN d.o THEN d.o[key] ELSE Null

\* d.get raises AttributeError unless d is a dict
IsDict(v) == v.t = "obj"

(***************************************************************************)
(* Strings.                                                                *)
(***************************************************************************)
LowerCase == <<"a","b","c","d","e","f","g","h","i","j","k","l","m",
               "n","o","p","q","r","s","t","u","v","w","x","y","z">>
UpperCase == <<"A","B","C","D","E","F","G","H","I","J","K","L","M",
               "N","O","P","Q","R","S","T","U","V","W","X","Y","Z">>
DigitChars == <<"0","1","2","3","4","5","6","7","8","9">>

IndexIn(c, alphabet) ==
    IF \E i \in DOMAIN alphabet : alphabet[i] = c
    THEN CHOOSE i \in DOMAIN alphabet : alphabet[i] = c
    ELSE 0

IsUpper(c) == IndexIn(c, UpperCase) # 0
IsLower(c) == IndexIn(c, LowerCase) # 0
IsCased(c) == IsUpper(c) \/ IsLower(c)
IsDigit(c) == IndexIn(c, DigitChars) # 0
IsSpace(c) == c \in {" ", "\t", "\n"}

ToLower(c) == IF IsUpper(c) THEN LowerCase[IndexIn(c, UpperCase)] ELSE c
ToUpper(c) == IF IsLower(c) THEN UpperCase[IndexIn(c, LowerCase)] ELSE c

\* str.lower()
Lower(s) == [i \in 1..Len(s) |-> ToLower(s[i])]

\* sub in s
IsSubstring(sub, s) ==
    \E i \in 0..(Len(s) - Len(sub)) : \A j \in 1..Len(sub) : s[i + j] = sub[j]

RECURSIVE DigitsOf(_)
\* str(n) for an int n >= 0
DigitsOf(n) ==
    IF n < 10 THEN <<DigitChars[n + 1]>>
    ELSE DigitsOf(n \div 10) \o <<DigitChars[(n % 10) + 1]>>

RECURSIVE DigitsVal(_)
\* int(s) for a string of digits; 0 for the empty string
DigitsVal(s) ==
    IF s = <<>> THEN 0
    ELSE DigitsVal(SubSeq(s, 1, Len(s) - 1)) * 10 + (IndexIn(s[Len(s)], DigitChars) - 1)

RECURSIVE Pow10(_)
Pow10(k) == IF k = 0 THEN 1 ELSE 10 * Pow10(k - 1)

\* str(v), for the values a dimensions field is given in this model
PyStr(v) ==
    CASE v.t = "str" -> v.s
      [] v.t = "num" -> DigitsOf(v.n)
      [] v.t = "bool" -> IF v.n = 1 THEN <<"T","r","u","e">> ELSE <<"F","a","l","s","e">>

(***************************************************************************)
(* __init__: the template of the unified schema.                           *)
(***************************************************************************)
SchemaKeys ==
    {"id", "borrower_name", "bank_name", "address", "price", "dimensions",
     "area_sqft", "emd", "possession", "auction_date", "application_deadline",
     "locality", "city", "state", "pincode", "property_type", "description",
     "source"}

InitialSchema == [k \in SchemaKeys |-> Null]

(***************************************************************************)
(* extract_area_from_dimensions: the regular expressions of lines 47-53.   *)
(* Every pattern is the same number group followed by a tail of            *)
(* items; an item is a literal character or \s, taken once, optionally    *)
(* (written ?) or any number of times (written with a star).               *)
(***************************************************************************)
Lit(c) == [k |-> "lit", c |-> c, q |-> "1"]
Opt(c) == [k |-> "lit", c |-> c, q |-> "?"]
WsStar == [k |-> "ws", c |-> " ", q |-> "*"]

\* sq\.?\s*  (shared by patterns 1, 3 and 4)
SqPrefix == <<WsStar, Lit("s"), Lit("q"), Opt("."), WsStar>>

patterns ==
    << SqPrefix \o <<Lit("f"), Lit("t"), Opt(".")>>,
       <<WsStar, Lit("s"), Lit("f"), Lit("t")>>,
       SqPrefix \o <<Lit("m"), Lit("t"), Opt("r"), Opt("s"), Opt(".")>>,
       SqPrefix \o <<Lit("m"), Opt(".")>>,
       <<WsStar, Lit("s"), Lit("q"), Lit("f"), Lit("t")>> >>

\* The text of the number group, as written in the source.
NumberGroupText ==
    <<"(", "\\", "d", "+", "(", "?", ":", "\\", ".", "\\", "d", "+", ")", "?", ")">>

\* The text of one item, as written in the source.
ItemText(it) ==
    (IF it.k = "ws" THEN <<"\\", "s">>
     ELSE IF it.c = "." THEN <<"\\", ".">>
     ELSE <<it.c>>)
    \o (IF it.q = "1" THEN <<>> ELSE <<it.q>>)

RECURSIVE TailText(_)
TailText(p) == IF p = <<>> THEN <<>> ELSE ItemText(Head(p)) \o TailText(Tail(p))

\* The pattern string that `'mtr' in pattern` looks into.
PatternText(p) == NumberGroupText \o TailText(p)

Accepts(it, c) == IF it.k = "ws" THEN IsSpace(c) ELSE c = it.c

RECURSIVE MatchTail(_, _, _, _)
\* Whether items k.. of tail p match s from position i on.
MatchTail(s, i, p, k) ==
    IF k > Len(p) THEN TRUE
    ELSE LET it == p[k]
             hit == i <= Len(s) /\ Accepts(it, s[i])
         IN  CASE it.q = "1" -> hit /\ MatchTail(s, i + 1, p, k + 1)
               [] it.q = "?" -> \/ hit /\ MatchTail(s, i + 1, p, k + 1)
                                \/ MatchTail(s, i, p, k + 1)
               [] it.q = "*" -> \/ hit /\ MatchTail(s, i + 1, p, k)
                                \/ MatchTail(s, i, p, k + 1)

RECURSIVE DigitRun(_, _)
\* Length of the longest run of digits of s that starts at position i.
DigitRun(s, i) ==
    IF i <= Len(s) /\ IsDigit(s[i]) THEN 1 + DigitRun(s, i + 1) ELSE 0

\* Ends (exclusive) of (?:\.\d+)? taken at position e, longest first.
FracEnds(s, e) ==
    IF e <= Len(s) /\ s[e] = "."
    THEN LET r == DigitRun(s, e + 1) IN [j \in 1..r |-> e + 1 + (r - j + 1)]
    ELSE <<>>

RECURSIVE NumberEndsFrom(_, _, _)
\* Ends of \d+(?:\.\d+)? started at i, for \d+ of d digits and fewer, in the
\* order a backtracking matcher tries them (greedy first).
NumberEndsFrom(s, i, d) ==
    IF d = 0 THEN <<>>
    ELSE FracEnds(s, i + d) \o <<i + d>> \o NumberEndsFrom(s, i, d - 1)

NumberEnds(s, i) == NumberEndsFrom(s, i, DigitRun(s, i))

\* The end of group 1 of the first match of pattern tail p that starts at i;
\* 0 when there is none.
MatchAt(s, i, p) ==
    LET ends == SelectSeq(NumberEnds(s, i), LAMBDA e : MatchTail(s, e, p, 1))
    IN  IF ends = <<>> THEN 0 ELSE ends[1]

\* re.search(pattern, s): [found, group1], the leftmost match.
re_search(p, s) ==
    LET starts == {i \in 1..Len(s) : MatchAt(s, i, p) # 0}
    IN  IF starts = {} THEN [found |-> FALSE, group1 |-> <<>>]
        ELSE LET i == CHOOSE x \in starts : \A y \in starts : x <= y
             IN  [found |-> TRUE, group1 |-> SubSeq(s, i, MatchAt(s, i, p) - 1)]

\* float(text) for text that is digits, or digits "." digits (at most 3 decimals)
ParseFloat(text) ==
    LET dot == IF \E i \in 1..Len(text) : text[i] = "."
               THEN CHOOSE i \in 1..Len(text) : text[i] = "."
               ELSE Len(text) + 1
        whole == SubSeq(text, 1, dot - 1)
        frac == SubSeq(text, dot + 1, Len(text))
    IN  DigitsVal(whole) * FloatScale + DigitsVal(frac) * (FloatScale \div Pow10(Len(frac)))

\* 10.764, in thousandths
SqMetreToSqFeet == 10764

\* a * k / 1000, for a float a and k in thousandths
TimesThousandths(a, k) == (a \div 1000) * k + ((a % 1000) * k) \div 1000

\* 'mtr' in pattern or 'sq.m' in pattern or 'sq m' in pattern
IsMetricPattern(p) ==
    \/ IsSubstring(<<"m", "t", "r">>, PatternText(p))
    \/ IsSubstring(<<"s", "q", ".", "m">>, PatternText(p))
    \/ IsSubstring(<<"s", "q", " ", "m">>, PatternText(p))

\* Lines 58-62: the area of a match of pattern p.
AreaOfMatch(p, group1) ==
    IF IsMetricPattern(p)
    THEN Float(TimesThousandths(ParseFloat(group1), SqMetreToSqFeet))
    ELSE Float(ParseFloat(group1))

RECURSIVE FirstMatch(_, _)
\* Lines 55-64: the loop over the patterns, from pattern number k on.
FirstMatch(dim_lower, k) ==
    IF k > Len(patterns) THEN Null
    ELSE IF re_search(patterns[k], dim_lower).found
         THEN AreaOfMatch(patterns[k], re_search(patterns[k], dim_lower).group1)
         ELSE FirstMatch(dim_lower, k + 1)

\* pd.isna(v) of a list of two or more items is an array, whose truth value
\* is ambiguous: `not dimensions or pd.isna(dimensions)` raises ValueError.
IsNaRaises(v) == v.t = "list" /\ v.n >= 2

\* extract_area_from_dimensions: [raised, val]
extract_area_from_dimensions(d) ==
    IF ~Truthy(d) THEN [raised |-> FALSE, val |-> Null]
    ELSE IF IsNaRaises(d) THEN [raised |-> TRUE, val |-> Null]
    ELSE [raised |-> FALSE, val |-> FirstMatch(Lower(PyStr(d)), 1)]

(***************************************************************************)
(* Building one record: self.unified_schema.copy() then .update({...}).    *)
(***************************************************************************)
\* d.update(u) on dicts given as functions from keys to values
Update(d, u) ==
    [k \in (DOMAIN d) \cup (DOMAIN u) |-> IF k \in DOMAIN u THEN u[k] ELSE d[k]]

\* The same without .copy(): the update lands in the template itself.
CopyUpdate_NoCopy(schema, u) == [rec |-> Update(schema, u), schema |-> Update(schema, u)]

\* property_data = self.unified_schema.copy(); property_data.update(u):
\* the record, and the template as it is afterwards.
CopyUpdate(schema, u) == [rec |-> Update(schema, u), schema |-> schema]

Chars_baanknet == <<"b","a","a","n","k","n","e","t">>
Chars_property_details ==
    <<"p","r","o","p","e","r","t","y","_","d","e","t","a","i","l","s">>

(***************************************************************************)
(* parse_baanknet_file.  The file on disk is [kind, items]: kind is        *)
(* "missing" (open raises), "invalid" (json.load raises), "notarray" (the  *)
(* top-level value is a number or a dict with keys: iterating it or        *)
(* calling .get on its items raises) or "array" (a list of items).         *)
(***************************************************************************)
\* Lines 80-86: the fields taken from one entry.
BaanknetFields(item, resp_data) ==
    [id |-> Get(item, "property_id"),
     price |-> Get(resp_data, "propertyPrice"),
     city |-> Get(resp_data, "city"),
     description |-> Get(resp_data, "summaryDesc"),
     source |-> Str(Chars_baanknet)]

\* Line 76: item.get('status') == 1 and 'respData' in item
BaanknetUsable(item) == PyEqInt(Get(item, "status"), 1) /\ HasKey(item, "respData")

RECURSIVE BaanknetLoop(_, _, _, _)
\* Lines 74-88: the loop from item k on, with the records appended so far.
\* item.get and resp_data.get raise AttributeError on a value that is no dict.
BaanknetLoop(items, k, schema, parsed_properties) ==
    IF k > Len(items)
    THEN [raised |-> FALSE, records |-> parsed_properties, schema |-> schema]
    ELSE LET item == items[k] IN
         IF ~IsDict(item)
         THEN [raised |-> TRUE, records |-> parsed_properties, schema |-> schema]
         ELSE IF BaanknetUsable(item)
         THEN LET resp_data == item.o["respData"] IN
              IF ~IsDict(resp_data)
              THEN [raised |-> TRUE, records |-> parsed_properties, schema |-> schema]
              ELSE BaanknetLoop(items, k + 1,
                                CopyUpdate(schema, BaanknetFields(item, resp_data)).schema,
                                Append(parsed_properties,
                                       CopyUpdate(schema,
                                                  BaanknetFields(item, resp_data)).rec))
         ELSE BaanknetLoop(items, k + 1, schema, parsed_properties)

\* Lines 93-95: what the loop gave, or [] if anything in it raised.
ExceptReturnEmpty(r) ==
    [records |-> IF r.raised THEN <<>> ELSE r.records, schema |-> r.schema]

\* Lines 70-95: one try around open, json.load and the whole loop;
\* `except Exception` returns [].
parse_baanknet_file(file, schema) ==
    IF file.kind # "array"
    THEN [records |-> <<>>, schema |-> schema]
    ELSE ExceptReturnEmpty(BaanknetLoop(file.items, 1, schema, <<>>))

(***************************************************************************)
(* parse_property_details_directory.  A file is [kind, data]: kind is      *)
(* "unreadable" (open raises), "invalid" (json.load raises) or "json".     *)
(***************************************************************************)
\* Lines 113-131: the fields taken from one file's data object.
PropertyFields(prop_data, area_sqft) ==
    [id |-> Get(prop_data, "id"),
     borrower_name |-> Get(prop_data, "borrower_name"),
     bank_name |-> Get(prop_data, "bank_name"),
     address |-> Get(prop_data, "address"),
     price |-> Get(prop_data, "reserve_price"),
     dimensions |-> Get(prop_data, "dimensions"),
     area_sqft |-> area_sqft,
     emd |-> Get(prop_data, "emd"),
     possession |-> Get(prop_data, "possession"),
     auction_date |-> Get(prop_data, "auction_date"),
     application_deadline |-> Get(prop_data, "application_deadline"),
     locality |-> Get(prop_data, "locality"),
     city |-> Get(prop_data, "city"),
     state |-> Get(prop_data, "state"),
     pincode |-> Get(prop_data, "pincode"),
     property_type |-> Get(prop_data, "property_type"),
     source |-> Str(Chars_property_details)]

\* Line 109: data.get('success') and 'data' in data
FileUsable(data) == Truthy(Get(data, "success")) /\ HasKey(data, "data")

\* Lines 112-133: the record of one file, given what
\* extract_area_from_dimensions gave for its dimensions.
MapFile(prop_data, schema, a) ==
    IF a.raised THEN [raised |-> TRUE, recs |-> <<>>, schema |-> schema]
    ELSE [raised |-> FALSE,
          recs |-> <<CopyUpdate(schema, PropertyFields(prop_data, a.val)).rec>>,
          schema |-> CopyUpdate(schema, PropertyFields(prop_data, a.val)).schema]

\* Lines 105-137: the body of the loop for one file: whether it raised (and
\* was caught by the per-file except), the records it appended, the template.
ProcessFile(file, schema) ==
    LET skip == [raised |-> FALSE, recs |-> <<>>, schema |-> schema]
        fail == [raised |-> TRUE, recs |-> <<>>, schema |-> schema]
    IN  IF file.kind # "json" THEN fail
        ELSE IF ~IsDict(file.data) THEN fail
        ELSE IF ~FileUsable(file.data) THEN skip
        ELSE LET prop_data == file.data.o["data"] IN
             IF ~IsDict(prop_data) THEN fail
             ELSE MapFile(prop_data, schema,
                          extract_area_from_dimensions(Get(prop_data, "dimensions")))

\* Lines 133-137: the records so far, after one more file: a file that
\* raised has appended nothing, and the loop continues.
AfterFile(so_far, r) == [records |-> so_far.records \o r.recs, schema |-> r.schema]

RECURSIVE DirectoryLoop(_, _, _)
\* Lines 104-137: the loop from file k on.
DirectoryLoop(json_files, k, so_far) ==
    IF k > Len(json_files) THEN so_far
    ELSE DirectoryLoop(json_files, k + 1,
                       AfterFile(so_far, ProcessFile(json_files[k], so_far.schema)))

\* The same with one try around the whole loop, as in parse_baanknet_file:
\* a file that raises ends the loop and nothing is returned.
parse_property_details_directory_OneTry(json_files, schema) ==
    IF \E k \in DOMAIN json_files : ProcessFile(json_files[k], schema).raised
    THEN [records |-> <<>>, schema |-> schema]
    ELSE DirectoryLoop(json_files, 1, [records |-> <<>>, schema |-> schema])

parse_property_details_directory(json_files, schema) ==
    DirectoryLoop(json_files, 1, [records |-> <<>>, schema |-> schema])

(***************************************************************************)
(* pandas: the DataFrame and the column operations clean_and_standardize   *)
(* uses.  A DataFrame is [columns, rows]; a row maps each column to a      *)
(* cell; None and NaN and NaT are all the cell Null.                       *)
(***************************************************************************)
\* pd.DataFrame(all_data) for a list of dicts: the columns are the keys met,
\* and no column at all for an empty list.
DataFrame(all_data) ==
    LET cols == UNION {DOMAIN all_data[i] : i \in DOMAIN all_data}
    IN  [columns |-> cols,
         rows |-> [i \in DOMAIN all_data |->
                     [c \in cols |-> IF c \in DOMAIN all_data[i]
                                     THEN all_data[i][c] ELSE Null]]]

Column(d, c) == [i \in DOMAIN d.rows |-> d.rows[i][c]]

\* df[c] = vals
SetColumn(d, c, vals) ==
    [d EXCEPT !.rows = [i \in DOMAIN d.rows |-> [d.rows[i] EXCEPT ![c] = vals[i]]]]

RECURSIVE LStrip(_)
LStrip(s) == IF s # <<>> /\ IsSpace(s[1]) THEN LStrip(Tail(s)) ELSE s

RECURSIVE RStrip(_)
RStrip(s) ==
    IF s # <<>> /\ IsSpace(s[Len(s)]) THEN RStrip(SubSeq(s, 1, Len(s) - 1)) ELSE s

\* str.strip()
Strip(s) == LStrip(RStrip(s))

\* str.swapcase(), in the place of str.title()
Title_SwapCase(s) ==
    [i \in 1..Len(s) |-> IF IsUpper(s[i]) THEN ToLower(s[i]) ELSE ToUpper(s[i])]

\* str.title(): a cased character is upper-cased unless the one before it is cased
Title(s) ==
    [i \in 1..Len(s) |-> IF i > 1 /\ IsCased(s[i - 1]) THEN ToLower(s[i])
                         ELSE ToUpper(s[i])]

\* Whether s is digits, or digits "." digits
IsNumberText(s) ==
    s # <<>> /\ \E j \in DOMAIN NumberEnds(s, 1) : NumberEnds(s, 1)[j] = Len(s) + 1

\* pd.to_numeric(., errors='coerce') on one cell: surrounding blanks are
\* skipped, what does not parse becomes NaN
ToNumericCell(v) ==
    CASE v.t \in {"num", "float"} -> v
      [] v.t = "str" ->
            LET s == Strip(v.s) IN
            IF ~IsNumberText(s) THEN Null
            ELSE IF \E i \in DOMAIN s : s[i] = "." THEN Float(ParseFloat(s))
            ELSE Num(DigitsVal(s))
      [] v.t \in {"null", "list", "obj"} -> Null

DaysIn(y, m) ==
    IF m \in {4, 6, 9, 11} THEN 30
    ELSE IF m # 2 THEN 31
    ELSE IF (y % 4 = 0 /\ y % 100 # 0) \/ y % 400 = 0 THEN 29 ELSE 28

\* A date string YYYY-MM-DD
ParseDate(s) ==
    IF /\ Len(s) = 10
       /\ \A i \in {1, 2, 3, 4, 6, 7, 9, 10} : IsDigit(s[i])
       /\ s[5] = "-" /\ s[8] = "-"
    THEN LET y == DigitsVal(SubSeq(s, 1, 4))
             m == DigitsVal(SubSeq(s, 6, 7))
             dd == DigitsVal(SubSeq(s, 9, 10))
         IN  IF m \in 1..12 /\ dd >= 1 /\ dd <= DaysIn(y, m)
             THEN Date(y * 10000 + m * 100 + dd) ELSE Null
    ELSE Null

\* pd.to_datetime(., errors='coerce') on one cell
ToDatetimeCell(v) ==
    CASE v.t = "date" -> v
      [] v.t = "str" -> ParseDate(v.s)
      [] v.t = "null" -> Null

\* .str.strip().str.title() on one cell: NaN for what is no string
StripTitleCell(v) == IF v.t = "str" THEN Str(Title(Strip(v.s))) ELSE Null

\* Whether col.str.strip().str.title() goes through.  A column of numbers
\* has a numeric dtype and no .str; an object column without any string, but
\* with some value, is all-NaN float64 after .str.strip(), and has no .str.
StrAccessorOk(vals) ==
    \/ \A i \in DOMAIN vals : vals[i].t = "null"
    \/ \E i \in DOMAIN vals : vals[i].t = "str"

Ok(d) == [exc |-> "none", df |-> d]
Raised(e, d) == [exc |-> e, df |-> d]

\* Each statement below takes r, what the statements before it gave, and
\* runs only if none of them raised.

\* df[c] = pd.to_numeric(df[c], errors='coerce')
ToNumericColumn(r, c) ==
    IF r.exc # "none" THEN r
    ELSE IF c \notin r.df.columns THEN Raised("KeyError", r.df)
    ELSE Ok(SetColumn(r.df, c,
                      [i \in DOMAIN r.df.rows |-> ToNumericCell(r.df.rows[i][c])]))

\* df[c] = df[c].str.strip().str.title()
StripTitleColumn(r, c) ==
    IF r.exc # "none" THEN r
    ELSE IF c \notin r.df.columns THEN Raised("KeyError", r.df)
    ELSE IF ~StrAccessorOk(Column(r.df, c)) THEN Raised("AttributeError", r.df)
    ELSE Ok(SetColumn(r.df, c,
                      [i \in DOMAIN r.df.rows |-> StripTitleCell(r.df.rows[i][c])]))

\* df[c] = pd.to_datetime(df[c], errors='coerce')
ToDatetimeColumn(r, c) ==
    IF r.exc # "none" THEN r
    ELSE IF c \notin r.df.columns THEN Raised("KeyError", r.df)
    ELSE Ok(SetColumn(r.df, c,
                      [i \in DOMAIN r.df.rows |-> ToDatetimeCell(r.df.rows[i][c])]))

\* df = df[df['pincode'] != 0], in the place of the assignment of None
ZeroPincodeToNone_DropRows(r) ==
    IF r.exc # "none" THEN r
    ELSE IF "pincode" \notin r.df.columns THEN Raised("KeyError", r.df)
    ELSE Ok([r.df EXCEPT !.rows =
                SelectSeq(r.df.rows, LAMBDA row : ~PyEqInt(row["pincode"], 0))])

\* df.loc[df['pincode'] == 0, 'pincode'] = None
ZeroPincodeToNone(r) ==
    IF r.exc # "none" THEN r
    ELSE IF "pincode" \notin r.df.columns THEN Raised("KeyError", r.df)
    ELSE Ok(SetColumn(r.df, "pincode",
                      [i \in DOMAIN r.df.rows |->
                          IF PyEqInt(r.df.rows[i]["pincode"], 0)
                          THEN Null ELSE r.df.rows[i]["pincode"]]))

\* Lines 146-150: price, city
CleanPriceCity(d) == StripTitleColumn(ToNumericColumn(Ok(d), "price"), "city")

\* Lines 152-156: state, property_type
CleanStateType(r) == StripTitleColumn(StripTitleColumn(r, "state"), "property_type")

\* Lines 158-161: the two date columns
CleanDates(r) ==
    ToDatetimeColumn(ToDatetimeColumn(r, "auction_date"), "application_deadline")

\* Lines 163-165: pincode
CleanPincode(r) == ZeroPincodeToNone(ToNumericColumn(r, "pincode"))

\* clean_and_standardize, lines 146-167: [exc, df]
clean_and_standardize(d) == CleanPincode(CleanDates(CleanStateType(CleanPriceCity(d))))

(***************************************************************************)
(* The inputs the model runs on.                                           *)
(***************************************************************************)
SeqsUpTo(S, n) == UNION {[1..k -> S] : k \in 0..n}

\* Entries of the baanknet file.
Entry_P1 ==
    Obj([status |-> Num(1),
         property_id |-> Str(<<"P","1">>),
         respData |-> Obj([propertyPrice |-> Str(<<"9","5","0">>),
                           city |-> Str(<<" ","m","u","m","b","a","i"," ">>),
                           summaryDesc |-> Str(<<"f","l","a","t">>)])])
Entry_P2 ==
    Obj([status |-> Num(1),
         property_id |-> Str(<<"P","2">>),
         respData |-> Obj([propertyPrice |-> Str(<<"n","/","a">>),
                           city |-> Num(5)])])
Entry_Closed ==
    Obj([status |-> Num(0),
         property_id |-> Str(<<"P","3">>),
         respData |-> Obj([propertyPrice |-> Str(<<"1","0","0">>),
                           city |-> Str(<<"g","o","a">>)])])
Entry_NoRespData ==
    Obj([status |-> Num(1),
         property_id |-> Str(<<"P","4">>)])
Entry_NullRespData ==
    Obj([status |-> Num(1),
         property_id |-> Str(<<"P","5">>),
         respData |-> Null])
Entry_NotDict == Num(7)
Entry_TrueStatus ==
    Obj([status |-> Bool(TRUE),
         property_id |-> Str(<<"P","6">>),
         respData |-> Obj([city |-> Str(<<"g","o","a">>)])])

Entries == {Entry_P1, Entry_P2, Entry_Closed, Entry_NoRespData, Entry_NullRespData,
            Entry_NotDict, Entry_TrueStatus}

\* The entries the whole pipeline is run on.
PipelineEntries == {Entry_P1, Entry_P2, Entry_Closed, Entry_NotDict}

BaanknetFiles(entries) ==
    {[kind |-> k, items |-> <<>>] : k \in {"missing", "invalid", "notarray"}}
    \cup {[kind |-> "array", items |-> s] : s \in SeqsUpTo(entries, MaxEntries)}

\* Files of the property-details directory.
JsonFile(v) == [kind |-> "json", data |-> v]

File_D1 ==
    JsonFile(Obj([success |-> Bool(TRUE),
                  data |-> Obj([id |-> Str(<<"D","1">>),
                                dimensions |-> Str(<<"1","2","0","0"," ","s","q",".","f","t",".">>),
                                reserve_price |-> Str(<<"5","0","0">>),
                                pincode |-> Str(<<"0">>),
                                city |-> Str(<<" ","p","u","n","e"," ">>),
                                state |-> Str(<<"m","a","h","a","r","a","s","h","t","r","a">>),
                                property_type |-> Str(<<"f","l","a","t">>),
                                locality |-> Str(<<" ","b","a","n","e","r"," ">>),
                                auction_date |-> Str(<<"2","0","2","4","-","0","1","-","1","5">>),
                                application_deadline |-> Str(<<"s","o","o","n">>)])]))
File_D2 ==
    JsonFile(Obj([success |-> Bool(TRUE),
                  data |-> Obj([id |-> Str(<<"D","2">>),
                                dimensions |-> Str(<<"1","0","0"," ","s","q"," ","m">>),
                                reserve_price |-> Num(750),
                                pincode |-> Num(560001),
                                city |-> Str(<<"n","a","v","i"," ","M","U","M","B","A","I">>),
                                bank_name |-> Str(<<"s","b","i">>)])]))
File_Failed ==
    JsonFile(Obj([success |-> Bool(FALSE),
                  data |-> Obj([id |-> Str(<<"D","3">>)])]))
File_SuccessText ==
    JsonFile(Obj([success |-> Str(<<"f","a","l","s","e">>),
                  data |-> Obj([id |-> Str(<<"D","4">>),
                                city |-> Str(<<"g","o","a"," ">>)])]))
File_NoData == JsonFile(Obj([success |-> Bool(TRUE)]))
File_NullData == JsonFile(Obj([success |-> Bool(TRUE), data |-> Null]))
File_ListDimensions ==
    JsonFile(Obj([success |-> Bool(TRUE),
                  data |-> Obj([id |-> Str(<<"D","7">>),
                                dimensions |-> List(2)])]))
File_Invalid == [kind |-> "invalid", data |-> Null]
File_Unreadable == [kind |-> "unreadable", data |-> Null]

Files == {File_D1, File_D2, File_Failed, File_SuccessText, File_NoData, File_NullData,
          File_ListDimensions, File_Invalid, File_Unreadable}

\* The files the whole pipeline is run on.
PipelineFiles == {File_D1, File_D2, File_SuccessText, File_ListDimensions, File_Invalid}

Directories(files) == SeqsUpTo(files, MaxFiles)

\* Dimension strings: a number, an optional blank, a unit.
NumberTexts ==
    {[text |-> <<"7">>, value |-> 7000],
     [text |-> <<"1","2","0","0">>, value |-> 1200000],
     [text |-> <<"1",".","5">>, value |-> 1500],
     [text |-> <<"0",".","2","5">>, value |-> 250]}

UnitTexts ==
    {<<"s","q"," ","f","t">>,
     <<"s","q","f","t">>,
     <<"s","q",".","f","t",".">>,
     <<"s","f","t">>,
     <<"s","q"," ","m","t","r">>,
     <<"s","q"," ","m">>,
     <<"s","q",".","m">>,
     <<"s","q"," ","m","t">>,
     <<"s","q"," ","m","t","r","s">>,
     <<"S","Q"," ","F","T">>,
     <<"S","q"," ","M">>,
     <<"a","c","r","e","s">>,
     <<"m">>}

DimensionInputs ==
    {Str(n.text \o gap \o u) : n \in NumberTexts, gap \in {<<>>, <<" ">>}, u \in UnitTexts}
    \cup {Null, Str(<<>>), Num(0), Num(1200), List(2)}
    \cup {Str(<<"n","o"," ","n","u","m","b","e","r","s"," ","h","e","r","e">>),
          Str(<<"p","l","o","t"," ","1","2"," ","s","q"," ","f","t"," ","c","o","r","n","e","r">>),
          Str(<<"1",".","2",".","3"," ","s","q"," ","f","t">>)}

\* Cells of a table handed to clean_and_standardize.
TextCells ==
    {Null,
     Str(<<" ","p","u","n","e"," ">>),
     Str(<<"N","E","W"," ","d","e","l","h","i">>),
     Str(<<"n","a","v","i"," ","m","u","m","b","a","i">>),
     Str(<<"G","o","a">>),
     Str(<<"o","'","n","e","i","l"," ","2","n","d">>),
     Str(<<>>),
     Num(5)}
NumberCells ==
    {Null,
     Str(<<"9","5","0">>),
     Str(<<" ","4","2"," ">>),
     Str(<<"1","2",".","5">>),
     Str(<<"a","b","c">>),
     Str(<<"0">>),
     Str(<<"0",".","0">>),
     Num(0),
     Num(560001)}
DateCells ==
    {Null,
     Str(<<"2","0","2","4","-","0","1","-","1","5">>),
     Str(<<"2","0","2","4","-","0","2","-","3","0">>),
     Str(<<"s","o","o","n">>)}

CleanRow(text, number, date) ==
    Update(InitialSchema,
           [id |-> Str(<<"R","1">>),
            locality |-> Str(<<" ","b","a","n","e","r"," ">>),
            source |-> Str(Chars_property_details),
            city |-> text, state |-> text, property_type |-> text,
            price |-> number, pincode |-> number,
            auction_date |-> date, application_deadline |-> date])

CleanRows ==
    {CleanRow(v, Null, Null) : v \in TextCells}
    \cup {CleanRow(Null, v, Null) : v \in NumberCells}
    \cup {CleanRow(Null, Null, v) : v \in DateCells}
    \cup {CleanRow(Str(<<" ","p","u","n","e"," ">>),
                    Str(<<"9","5","0">>),
                    Str(<<"2","0","2","4","-","0","1","-","1","5">>))}

(***************************************************************************)
(* create_unified_dataset, one action per statement.                       *)
(***************************************************************************)
NoFrame == [columns |-> {}, rows |-> <<>>]

Init ==
    /\ pc = "start"
    /\ baanknet_file \in BaanknetFiles(PipelineEntries)
    /\ property_details_dir \in Directories(PipelineFiles)
    /\ unified_schema = InitialSchema
    /\ baanknet_data = <<>>
    /\ property_details_data = <<>>
    /\ df = NoFrame
    /\ prev_df = NoFrame
    /\ exc = "none"
    /\ dimensions = Null
    /\ area = Null
    /\ passes = 0

\* Line 174: baanknet_data = self.parse_baanknet_file()
ParseBaanknet ==
    /\ pc = "start"
    /\ \E r \in {parse_baanknet_file(baanknet_file, unified_schema)} :
           /\ baanknet_data' = r.records
           /\ unified_schema' = r.schema
    /\ pc' = "baanknet_parsed"
    /\ UNCHANGED <<baanknet_file, property_details_dir, property_details_data, df,
                   prev_df, exc, dimensions, area, passes>>

\* Line 175: property_details_data = self.parse_property_details_directory()
ParseDirectory ==
    /\ pc = "baanknet_parsed"
    /\ \E r \in {parse_property_details_directory(property_details_dir, unified_schema)} :
           /\ property_details_data' = r.records
           /\ unified_schema' = r.schema
    /\ pc' = "directory_parsed"
    /\ UNCHANGED <<baanknet_file, property_details_dir, baanknet_data, df, prev_df,
                   exc, dimensions, area, passes>>

\* The two lists added the other way round
Combine_Swapped(b, p) == p \o b

\* Line 178: all_data = baanknet_data + property_details_data
Combine(b, p) == b \o p

\* Lines 178-181: df = pd.DataFrame(all_data)
BuildFrame ==
    /\ pc = "directory_parsed"
    /\ df' = DataFrame(Combine(baanknet_data, property_details_data))
    /\ pc' = "framed"
    /\ UNCHANGED <<baanknet_file, property_details_dir, unified_schema, baanknet_data,
                   property_details_data, prev_df, exc, dimensions, area, passes>>

\* Line 184: df = self.clean_and_standardize(df); an exception it raises
\* leaves create_unified_dataset.
Clean ==
    /\ pc = "framed"
    /\ \E r \in {clean_and_standardize(df)} :
           /\ df' = r.df
           /\ exc' = r.exc
           /\ pc' = IF r.exc = "none" THEN "cleaned" ELSE "error"
    /\ prev_df' = df
    /\ passes' = passes + 1
    /\ UNCHANGED <<baanknet_file, property_details_dir, unified_schema, baanknet_data,
                   property_details_data, dimensions, area>>

\* Lines 186-189: len(df), df['source'].value_counts(), return df
Return ==
    /\ pc = "cleaned"
    /\ IF "source" \in df.columns
       THEN pc' = "done" /\ exc' = exc
       ELSE pc' = "error" /\ exc' = "KeyError"
    /\ UNCHANGED <<baanknet_file, property_details_dir, unified_schema, baanknet_data,
                   property_details_data, df, prev_df, dimensions, area, passes>>

Next == ParseBaanknet \/ ParseDirectory \/ BuildFrame \/ Clean \/ Return

Spec == Init /\ [][Next]_vars

(***************************************************************************)
(* clean_and_standardize on its own: a table of unified records is cleaned *)
(* and the result is cleaned again.                                        *)
(***************************************************************************)
InitClean ==
    /\ pc = "framed"
    /\ baanknet_file = [kind |-> "missing", items |-> <<>>]
    /\ property_details_dir = <<>>
    /\ unified_schema = InitialSchema
    /\ baanknet_data = <<>>
    /\ property_details_data \in SeqsUpTo(CleanRows, MaxRows)
    /\ df = DataFrame(property_details_data)
    /\ prev_df = NoFrame
    /\ exc = "none"
    /\ dimensions = Null
    /\ area = Null
    /\ passes = 0

\* clean_and_standardize applied to its own result
CleanAgain ==
    /\ pc = "cleaned"
    /\ passes = 1
    /\ \E r \in {clean_and_standardize(df)} :
           /\ df' = r.df
           /\ exc' = r.exc
           /\ pc' = IF r.exc = "none" THEN "cleaned" ELSE "error"
    /\ prev_df' = df
    /\ passes' = passes + 1
    /\ UNCHANGED <<baanknet_file, property_details_dir, unified_schema, baanknet_data,
                   property_details_data, dimensions, area>>

NextClean == Clean \/ CleanAgain

SpecClean == InitClean /\ [][NextClean]_vars

(***************************************************************************)
(* extract_area_from_dimensions on its own.                                *)
(***************************************************************************)
InitArea ==
    /\ pc = "area_call"
    /\ baanknet_file = [kind |-> "missing", items |-> <<>>]
    /\ property_details_dir = <<>>
    /\ unified_schema = InitialSchema
    /\ baanknet_data = <<>>
    /\ property_details_data = <<>>
    /\ df = NoFrame
    /\ prev_df = NoFrame
    /\ exc = "none"
    /\ dimensions \in DimensionInputs
    /\ area = Null
    /\ passes = 0

ExtractArea ==
    /\ pc = "area_call"
    /\ \E r \in {extract_area_from_dimensions(dimensions)} :
           /\ area' = r.val
           /\ exc' = IF r.raised THEN "ValueError" ELSE "none"
           /\ pc' = IF r.raised THEN "area_raised" ELSE "area_returned"
    /\ UNCHANGED <<baanknet_file, property_details_dir, unified_schema, baanknet_data,
                   property_details_data, df, prev_df, dimensions, passes>>

NextArea == ExtractArea

SpecArea == InitArea /\ [][NextArea]_vars

(***************************************************************************)
(* parse_baanknet_file on its own, on every entry of Entries.              *)
(***************************************************************************)
InitBaanknet ==
    /\ pc = "start"
    /\ baanknet_file \in BaanknetFiles(Entries)
    /\ property_details_dir = <<>>
    /\ unified_schema = InitialSchema
    /\ baanknet_data = <<>>
    /\ property_details_data = <<>>
    /\ df = NoFrame
    /\ prev_df = NoFrame
    /\ exc = "none"
    /\ dimensions = Null
    /\ area = Null
    /\ passes = 0

NextBaanknet == ParseBaanknet

SpecBaanknet == InitBaanknet /\ [][NextBaanknet]_vars

(***************************************************************************)
(* parse_property_details_directory on its own, on every file of Files.    *)
(***************************************************************************)
InitDirectory ==
    /\ pc = "baanknet_parsed"
    /\ baanknet_file = [kind |-> "missing", items |-> <<>>]
    /\ property_details_dir \in Directories(Files)
    /\ unified_schema = InitialSchema
    /\ baanknet_data = <<>>
    /\ property_details_data = <<>>
    /\ df = NoFrame
    /\ prev_df = NoFrame
    /\ exc = "none"
    /\ dimensions = Null
    /\ area = Null
    /\ passes = 0

NextDirectory == ParseDirectory

SpecDirectory == InitDirectory /\ [][NextDirectory]_vars

(***************************************************************************)
(* The claims.                                                             *)
(***************************************************************************)
Ended == pc \in {"done", "error"}
DirectoryParsed == pc \notin {"start", "baanknet_parsed"}

\* The columns clean_and_standardize assigns to
CleanedColumns ==
    {"price", "city", "state", "property_type", "auction_date",
     "application_deadline", "pincode"}

\* C1: create_unified_dataset never lets an exception escape: whatever the
\* two sources hold, the run ends by returning a table, never in an error.
C1_NoExceptionEscapes == exc = "none" /\ pc # "error"

\* C2: when both mappers produce no records, create_unified_dataset returns
\* a table of zero rows that has all 18 columns of the unified schema.
C2_EmptyResultHasAllColumns ==
    (Ended /\ baanknet_data = <<>> /\ property_details_data = <<>>)
        => /\ pc = "done"
           /\ df.rows = <<>>
           /\ df.columns = SchemaKeys
           /\ Cardinality(df.columns) = 18

\* An entry the claim C3 counts as usable, and the record it stands for.
C3_Usable(item) ==
    /\ IsDict(item)
    /\ PyEqInt(Get(item, "status"), 1)
    /\ HasKey(item, "respData")
    /\ IsDict(item.o["respData"])
C3_Record(item) ==
    Update(InitialSchema, BaanknetFields(item, item.o["respData"]))
C3_Expected(items) ==
    LET usable == SelectSeq(items, C3_Usable)
    IN  [i \in DOMAIN usable |-> C3_Record(usable[i])]

\* C3: for a readable baanknet file holding a list, parse_baanknet_file
\* returns one record per entry with status == 1 and a respData, in input
\* order; every other entry is skipped and leaves the other records alone.
C3_OneRecordPerUsableEntry ==
    (pc = "baanknet_parsed" /\ baanknet_file.kind = "array")
        => baanknet_data = C3_Expected(baanknet_file.items)

\* A file whose top-level success is the JSON value true and that has data.
C4_SuccessTrueWithData(file) ==
    /\ file.kind = "json"
    /\ IsDict(file.data)
    /\ Get(file.data, "success") = Bool(TRUE)
    /\ HasKey(file.data, "data")

\* C4: parse_property_details_directory has a record for a file only if the
\* file's success equals true and a data object is present: every record
\* returned carries the id of such a file, and there are no more records
\* than such files.
C4_OnlySuccessTrueFiles ==
    DirectoryParsed =>
        LET good == {i \in DOMAIN property_details_dir :
                        C4_SuccessTrueWithData(property_details_dir[i])}
        IN  /\ Len(property_details_data) <= Cardinality(good)
            /\ \A j \in DOMAIN property_details_data :
                  \E i \in good :
                     /\ IsDict(property_details_dir[i].data.o["data"])
                     /\ Get(property_details_dir[i].data.o["data"], "id")
                            = property_details_data[j]["id"]

\* A file whose processing raises (unreadable, invalid JSON, wrong shape, or
\* an error while its fields are mapped).
C5_Fails(file) == ProcessFile(file, InitialSchema).raised

\* C5: a file that fails is skipped alone: the records returned are those
\* returned for the directory without the failing files.
C5_FailingFileSkippedAlone ==
    DirectoryParsed =>
        property_details_data =
            parse_property_details_directory(
                SelectSeq(property_details_dir, LAMBDA f : ~C5_Fails(f)),
                InitialSchema).records

\* C5 witness: a failing file stands before a file that gave a record.
C5_Witness ==
    /\ DirectoryParsed
    /\ Len(property_details_dir) >= 2
    /\ C5_Fails(property_details_dir[1])
    /\ Len(property_details_data) >= 1

\* C6: "<n> sq ft" and "<n> sqft" yield n; "<n> sq mtr" and "<n> sq m" both
\* yield n times 10.764.
C6_MetricUnitsConverted ==
    pc = "area_returned" =>
        \A n \in NumberTexts :
            /\ dimensions \in {Str(n.text \o <<" ","s","q"," ","f","t">>),
                                Str(n.text \o <<" ","s","q","f","t">>)}
                  => area = Float(n.value)
            /\ dimensions \in {Str(n.text \o <<" ","s","q"," ","m","t","r">>),
                                Str(n.text \o <<" ","s","q"," ","m">>)}
                  => area = Float(TimesThousandths(n.value, SqMetreToSqFeet))

\* The cells of a row or record in the columns cleaning leaves alone.
Untouched(r) == [c \in SchemaKeys \ CleanedColumns |-> r[c]]

\* C7: the rows of the returned table are the baanknet records, in order,
\* followed by the property-details records, in order; there are as many
\* rows as records, and no property_details row precedes a baanknet row.
C7_BaanknetRowsFirst ==
    pc = "done" =>
        LET nb == Len(baanknet_data)
            np == Len(property_details_data)
        IN  /\ Len(df.rows) = nb + np
            /\ \A i \in 1..nb :
                  /\ Untouched(df.rows[i]) = Untouched(baanknet_data[i])
                  /\ df.rows[i]["source"] = Str(Chars_baanknet)
            /\ \A i \in 1..np :
                  /\ Untouched(df.rows[nb + i]) = Untouched(property_details_data[i])
                  /\ df.rows[nb + i]["source"] = Str(Chars_property_details)
            /\ \A i \in DOMAIN df.rows : \A j \in DOMAIN df.rows :
                  (i < j) => ~ /\ df.rows[i]["source"] = Str(Chars_property_details)
                               /\ df.rows[j]["source"] = Str(Chars_baanknet)

\* C7 witness: a table is returned that has rows of both sources, two of one.
C7_Witness ==
    /\ pc = "done"
    /\ Len(baanknet_data) >= 2
    /\ Len(property_details_data) >= 1
    /\ baanknet_data[1] # baanknet_data[2]

\* The fields each mapper sets.
C8_BaanknetMapped == {"id", "price", "city", "description", "source"}
C8_PropertyMapped == SchemaKeys \ {"description"}

\* C8: every record of either mapper has exactly the 18 keys of the unified
\* schema, its unmapped fields null and its source that of its mapper; and
\* the shared template stays as __init__ made it.
C8_RecordsHaveSchemaShape ==
    /\ Cardinality(SchemaKeys) = 18
    /\ unified_schema = InitialSchema
    /\ \A i \in DOMAIN baanknet_data :
          /\ DOMAIN baanknet_data[i] = SchemaKeys
          /\ baanknet_data[i]["source"] = Str(Chars_baanknet)
          /\ \A k \in SchemaKeys \ C8_BaanknetMapped : baanknet_data[i][k] = Null
    /\ \A i \in DOMAIN property_details_data :
          /\ DOMAIN property_details_data[i] = SchemaKeys
          /\ property_details_data[i]["source"] = Str(Chars_property_details)
          /\ \A k \in SchemaKeys \ C8_PropertyMapped :
                property_details_data[i][k] = Null

\* C8 witness: both mappers have produced records, the first of them two.
C8_Witness ==
    /\ pc = "directory_parsed"
    /\ Len(baanknet_data) >= 2
    /\ Len(property_details_data) >= 1

\* C9: clean_and_standardize is idempotent: where it succeeds on X, cleaning
\* its result again succeeds and gives the same table.
C9_CleanIdempotent ==
    /\ (pc = "cleaned" /\ passes = 2) => df = prev_df
    /\ passes = 2 => pc = "cleaned"

\* C9 witness: the table was cleaned twice, and the first cleaning changed
\* cells of a table of two rows.
C9_Witness ==
    /\ pc = "cleaned"
    /\ passes = 2
    /\ Len(df.rows) >= 2
    /\ df # DataFrame(property_details_data)

\* C10: clean_and_standardize overwrites cells of the seven cleaned columns
\* only: the other columns, the number of rows and their order are as before.
C10_OtherColumnsUnchanged ==
    pc \in {"cleaned", "done"} =>
        /\ df.columns = prev_df.columns
        /\ Len(df.rows) = Len(prev_df.rows)
        /\ \A i \in DOMAIN df.rows :
              \A c \in df.columns \ CleanedColumns : df.rows[i][c] = prev_df.rows[i][c]

\* C10 witness: a cleaning changed cells of a table of two rows whose other
\* columns hold values, one of them a pincode of 0.
C10_Witness ==
    /\ pc = "cleaned"
    /\ Len(df.rows) >= 2
    /\ df # prev_df
    /\ \E i \in DOMAIN df.rows :
          /\ df.rows[i]["locality"] # Null
          /\ PyEqInt(ToNumericCell(prev_df.rows[i]["pincode"]), 0)

====
